---------------------------- MODULE Spec2Model ----------------------------
(***************************************************************************)
(* State-machine model of the HIT online-control wrapper:                  *)
(*   - BeamOptikDLL (src/hit/online_control/beamoptikdll.py): the call     *)
(*     gateway (_call / check_return) and the session/selection state,     *)
(*   - _HitACS (src/hit_acs/plugin.py) and HitOnlineControl                *)
(*     (src/hit_csys/plugin.py): the backend facades that drive a          *)
(*     BeamOptikDLL object.                                                *)
(* The native library is the environment: every native call answers with   *)
(* an exit code and output values chosen nondeterministically.             *)
(* Spec is the host that calls the wrapper and the telemetry operations of *)
(* _HitACS, SpecPlugin the host that goes through one of the facades only, *)
(* SpecRoundTrip the host that writes, executes and reads parameters.      *)
(***************************************************************************)
EXTENDS Integers, Sequences, FiniteSets, TLC

VARIABLES
    _iid,            \* BeamOptikDLL._iid: None or the interface instance id
    _selected_vacc,  \* BeamOptikDLL._selected_vacc: None or a VAcc number
    _selected_efi,   \* BeamOptikDLL._selected_efi: EFI channel record
    efi_vacc,        \* history: VAcc argument of the SelectMEFI that wrote _selected_efi
    vacc_in_session, \* history: a SelectVAcc has succeeded since the session was opened
    native_life,     \* history: the successful native Get/FreeInterfaceInstance calls
    plugin,          \* the facade the host has constructed: "hit_acs" or "hit_csys"
    connected,       \* _HitACS.connected
    settings,        \* _HitACS.settings: the host's settings dict, or None
    store,           \* history: the parameter values written, by the host to the
                     \* facade and by the wrapper to the native library
    last             \* the call the host has made and not yet taken the result of:
                     \* the operation, its native calls and its outcome

vars == <<_iid, _selected_vacc, _selected_efi, efi_vacc, vacc_in_session,
          native_life, plugin, connected, settings, store, last>>

-----------------------------------------------------------------------------
(* Bounds of the input sets *)

MaxIID == 0
MaxVAcc == 1
MaxChannelStep == 1
MaxPhys == 1
MaxCode == 11
MaxNegCode == 1

(* Python's None for the integer-valued fields (ids, VAcc numbers and
   channels are naturals). *)
None == 0 - 1

IIDs == 0..MaxIID
VAccNums == 0..MaxVAcc

(* EFI channel tuples <<energy, focus, intensity, gantry_angle>>: the lowest
   channels (1, 1, 1, no gantry) raised by at most MaxChannelStep in total. *)
EFIChannels ==
    {t \in (1..(1 + MaxChannelStep)) \X (1..(1 + MaxChannelStep))
           \X (1..(1 + MaxChannelStep)) \X (0..MaxChannelStep) :
        (t[1] - 1) + (t[2] - 1) + (t[3] - 1) + t[4] <= MaxChannelStep}

(* Physical EFI quadruples the native library may report. *)
PhysEFI == {<<100 + k, 200 + k, 300 + k, 400 + k>> : k \in 0..MaxPhys}

ParamNames == {"gantry_angle", "kL_Q1"}
MonitorNames == {"m1", "m2"}

(* Doubles are fixed-point numbers, counted in thousandths. *)
float(n) == n * 1000

FloatValues == {float(0), float(7)}

(* Raw SD readings (mm) the native library may report for a quantity. *)
RawSD(quantity) ==
    IF quantity = "posx" THEN {float(0 - 9999), float(1000)}
    ELSE IF quantity = "posy" THEN {float(0 - 9999), float(2000)}
    ELSE {float(0 - 9999), float(0), float(1)}

-----------------------------------------------------------------------------
(* Data types *)

EFI(energy, focus, intensity, gantry_angle) ==
    [energy |-> energy, focus |-> focus,
     intensity |-> intensity, gantry_angle |-> gantry_angle]

DVMStatus == 0..6
GetOptions == 0..1
ExecOptions == 0..2

ExecOptions_CalcDif == 1

error_messages ==
    <<"None",
      "Invalid Interface ID.",
      "Parameter not found in internal DVM list.",
      "GetValue failed.",
      "SetValue failed.",
      "Unknown option.",
      "Memory error.",
      "General runtime error.",
      "Ramp event not supported.",
      "Ramp data not available.",
      "Invalid offset for ramp function.">>

(* Exceptions: the Python type, the message, and for "Unknown error: %i" the
   formatted code. *)
NoExc == [type |-> "", msg |-> "", code |-> 0]
RuntimeError(msg) == [type |-> "RuntimeError", msg |-> msg, code |-> 0]
ValueError(msg, code) == [type |-> "ValueError", msg |-> msg, code |-> code]

(* Exit codes the native library may answer with. *)
ReplyCodes == (0 - MaxNegCode)..MaxCode

(* ctypes parameters handed to the native function. *)
c_int(n) == [kind |-> "Int", n |-> n, s |-> ""]
c_double(n) == [kind |-> "Double", n |-> n, s |-> ""]
c_char_p(s) == [kind |-> "Str", n |-> 0, s |-> s]
Out(s) == [kind |-> "Out", n |-> 0, s |-> s]
Done == [kind |-> "Done", n |-> 0, s |-> "piDone"]


-----------------------------------------------------------------------------
(* Replies of the native library.  A reply is the exit code written to the
   status slot and the values written to the output parameters; on a nonzero
   exit code the wrapper raises before it reads any output. *)

Replies(outs) ==
    {[done |-> 0, out |-> o] : o \in outs}
        \cup {[done |-> d, out |-> <<>>] : d \in ReplyCodes \ {0}}

(* The settings dict of the host.  `keys` are the keys present; the values of
   'vacc' (an integer) and 'mefi' (a channel 4-tuple) are kept, absent ones as
   None and (); the values of other keys are not read by the facade. *)
NoSettings == [is_None |-> TRUE, keys |-> {}, vacc |-> None, mefi |-> <<>>]

dict(keys, vacc, mefi) ==
    [is_None |-> FALSE, keys |-> keys,
     vacc |-> IF "vacc" \in keys THEN vacc ELSE None,
     mefi |-> IF "mefi" \in keys THEN mefi ELSE <<>>]

(* truth value of a dict or None *)
bool(d) == ~d.is_None /\ d.keys # {}

(* truth value of d.get('vacc') and of d.get('mefi') *)
get_vacc(d) == d.vacc # None /\ d.vacc # 0
get_mefi(d) == d.mefi # <<>>

(* d.update({'variant': ..., 'vacc': vacc, 'mefi': mefi}); the value of
   'variant' (self._lib._variant) is not read back by the facade and is not
   kept *)
update(d, vacc, mefi) ==
    [d EXCEPT !.keys = @ \cup {"variant", "vacc", "mefi"},
              !.vacc = vacc, !.mefi = mefi]

(* The object `self` while a handler runs: the fields of BeamOptikDLL and of
   the facade that holds it, the histories, and the handler's trace (native calls, warnings, raised
   exception, return value). *)
Self ==
    [_iid |-> _iid, _selected_vacc |-> _selected_vacc,
     _selected_efi |-> _selected_efi,
     efi_vacc |-> efi_vacc, vacc_in_session |-> vacc_in_session,
     native_life |-> native_life,
     connected |-> connected, settings |-> settings, store |-> store,
     calls |-> <<>>, warnings |-> <<>>, errors |-> <<>>,
     exc |-> NoExc, ret |-> <<>>]

Raise(self, exc) == [self EXCEPT !.exc = exc]
Return(self, ret) == [self EXCEPT !.ret = ret]
Warn(self, msg) == [self EXCEPT !.warnings = Append(@, msg)]

(* `except RuntimeError as e: logging.error(...)`: the exception is logged and
   the handler goes on *)
LogError(self) == [self EXCEPT !.errors = Append(@, self.exc), !.exc = NoExc]

Min(a, b) == IF a < b THEN a ELSE b

(* list.insert(i, x), i counted from 0 *)
insert(params, i, x) ==
    LET k == Min(i, Len(params))
    IN SubSeq(params, 1, k) \o <<x>> \o SubSeq(params, k + 1, Len(params))

-----------------------------------------------------------------------------
(* Call gateway *)

(* check_return with the table's bound off by one: code len(error_messages)
   indexes past the table. *)
check_return_le(done) ==
    IF 0 < done /\ done <= Len(error_messages)
    THEN IF done < Len(error_messages)
         THEN RuntimeError(error_messages[done + 1])
         ELSE [type |-> "IndexError", msg |-> "list index out of range", code |-> 0]
    ELSE IF done # 0
         THEN ValueError("Unknown error: %i", done)
         ELSE NoExc

check_return(done) ==
    IF 0 < done /\ done < Len(error_messages)
    THEN RuntimeError(error_messages[done + 1])
    ELSE IF done # 0
         THEN ValueError("Unknown error: %i", done)
         ELSE NoExc

(* History of the parameter store, kept if `tracked`.  The native side:
   `staged` holds for each parameter the value of the last SetFloatValue the
   library accepted, `committed` the staged values at the last ExecuteChanges
   it accepted.  The host side: `written` holds the value of the host's last
   write that went through, `executed` the written values at its last
   execute() that went through. *)
Unwritten == [name \in ParamNames |-> None]

NoStore ==
    [tracked |-> FALSE, staged |-> Unwritten, committed |-> Unwritten,
     written |-> Unwritten, executed |-> Unwritten]

NativeStore(st, function, args, done) ==
    IF ~st.tracked \/ done # 0 THEN st
    ELSE IF function = "SetFloatValue"
    THEN [st EXCEPT !.staged[args[2].s] = args[3].n]
    ELSE IF function = "ExecuteChanges"
    THEN [st EXCEPT !.committed = st.staged]
    ELSE st

HostStore(st, op, args, name, r) ==
    LET went_through ==
            /\ r.exc = NoExc
            /\ \A k \in 1..Len(r.calls) : r.calls[k].done = 0
    IN IF ~st.tracked THEN st
       ELSE IF op = "write_param"
       THEN [st EXCEPT !.written[name] = IF went_through THEN args[1] ELSE None]
       ELSE IF op = "execute" /\ went_through
       THEN [st EXCEPT !.executed = st.written]
       ELSE st

(* History of the native library: the successful Get/FreeInterfaceInstance
   calls, kept as the last one and whether they have alternated so far. *)
NativeLife(life, function, done) ==
    IF done = 0 /\ function = "GetInterfaceInstance"
    THEN [last |-> function,
          alternating |-> life.alternating /\ life.last # "GetInterfaceInstance"]
    ELSE IF done = 0 /\ function = "FreeInterfaceInstance"
    THEN [last |-> function,
          alternating |-> life.alternating /\ life.last = "GetInterfaceInstance"]
    ELSE life

(* _call appending the status slot for every function *)
_call_appending(self, function, params, reply) ==
    [self EXCEPT
       !.calls = Append(@, [function |-> function, args |-> Append(params, Done),
                            done |-> reply.done, out |-> reply.out]),
       !.native_life = NativeLife(@, function, reply.done),
       !.store = NativeStore(@, function, params, reply.done),
       !.exc = check_return(reply.done)]

_call(self, function, params, reply) ==
    LET args == IF function = "SelectMEFI"
                THEN insert(params, 6, Done)
                ELSE Append(params, Done)
    IN [self EXCEPT
          !.calls = Append(@, [function |-> function, args |-> args,
                               done |-> reply.done, out |-> reply.out]),
          !.native_life = NativeLife(@, function, reply.done),
          !.store = NativeStore(@, function, params, reply.done),
          !.exc = check_return(reply.done)]


-----------------------------------------------------------------------------
(* BeamOptikDLL: session and selection state.  Each method maps the object
   and the native reply to the object after the call. *)

(* the property without its check *)
iid_unchecked(self) == NoExc

(* property iid: raises unless GetInterfaceInstance has succeeded *)
iid(self) ==
    IF self._iid = None
    THEN RuntimeError("GetInterfaceInstance must be called before using other methods.")
    ELSE NoExc

(* one method body `self._call(function, self.iid, *params)` *)
CallWithIid(self, function, params, reply) ==
    IF iid(self) # NoExc
    THEN Raise(self, iid(self))
    ELSE _call(self, function, <<c_int(self._iid)>> \o params, reply)

BeamOptikDLL_DisableMessageBoxes(self, reply) ==
    _call(self, "DisableMessageBoxes", <<>>, reply)

(* GetInterfaceInstance without the guard against a second call *)
BeamOptikDLL_GetInterfaceInstance_twice(self, reply) ==
    LET c == _call(self, "GetInterfaceInstance", <<Out("iid")>>, reply)
    IN IF c.exc # NoExc THEN c
       ELSE Return([c EXCEPT !._iid = reply.out[1], !.vacc_in_session = FALSE],
                   <<reply.out[1]>>)

BeamOptikDLL_GetInterfaceInstance(self, reply) ==
    IF self._iid # None
    THEN Raise(self, RuntimeError("GetInterfaceInstance cannot be called twice."))
    ELSE LET c == _call(self, "GetInterfaceInstance", <<Out("iid")>>, reply)
         IN IF c.exc # NoExc THEN c
            ELSE Return([c EXCEPT !._iid = reply.out[1], !.vacc_in_session = FALSE],
                   <<reply.out[1]>>)

(* FreeInterfaceInstance forgetting the session whatever the exit code *)
BeamOptikDLL_FreeInterfaceInstance_always(self, reply) ==
    LET c == CallWithIid(self, "FreeInterfaceInstance", <<>>, reply)
    IN [c EXCEPT !._iid = None]

BeamOptikDLL_FreeInterfaceInstance(self, reply) ==
    LET c == CallWithIid(self, "FreeInterfaceInstance", <<>>, reply)
    IN IF c.exc # NoExc THEN c ELSE [c EXCEPT !._iid = None]

BeamOptikDLL_GetDVMStatus(self, reply) ==
    LET c == CallWithIid(self, "GetDVMStatus", <<Out("status")>>, reply)
    IN IF c.exc # NoExc THEN c ELSE Return(c, <<reply.out[1]>>)

(* SelectVAcc recording the number before the exit code is checked *)
BeamOptikDLL_SelectVAcc_early(self, vaccnum, reply) ==
    LET c == CallWithIid(self, "SelectVAcc", <<c_int(vaccnum)>>, reply)
    IN IF c.calls = self.calls THEN c
       ELSE IF c.exc # NoExc THEN [c EXCEPT !._selected_vacc = vaccnum]
       ELSE [c EXCEPT !._selected_vacc = vaccnum, !.vacc_in_session = TRUE]

BeamOptikDLL_SelectVAcc(self, vaccnum, reply) ==
    LET c == CallWithIid(self, "SelectVAcc", <<c_int(vaccnum)>>, reply)
    IN IF c.exc # NoExc THEN c
       ELSE [c EXCEPT !._selected_vacc = vaccnum, !.vacc_in_session = TRUE]

(* SelectMEFI recording the selection without comparing the VAcc *)
BeamOptikDLL_SelectMEFI_always(self, vaccnum, energy, focus, intensity, gantry_angle, reply) ==
    LET c == CallWithIid(self, "SelectMEFI",
                 <<c_int(vaccnum), c_int(energy), c_int(focus), c_int(intensity),
                   c_int(gantry_angle),
                   Out("value0"), Out("value1"), Out("value2"), Out("value3")>>,
                 reply)
    IN IF c.exc # NoExc THEN c
       ELSE Return([c EXCEPT
                      !._selected_efi = EFI(energy, focus, intensity, gantry_angle),
                      !.efi_vacc = vaccnum],
                   reply.out)

(* SelectMEFI treating a VAcc mismatch as a failure *)
BeamOptikDLL_SelectMEFI_strict(self, vaccnum, energy, focus, intensity, gantry_angle, reply) ==
    LET c == CallWithIid(self, "SelectMEFI",
                 <<c_int(vaccnum), c_int(energy), c_int(focus), c_int(intensity),
                   c_int(gantry_angle),
                   Out("value0"), Out("value1"), Out("value2"), Out("value3")>>,
                 reply)
    IN IF c.exc # NoExc THEN c
       ELSE IF vaccnum = self._selected_vacc
       THEN Return([c EXCEPT
                      !._selected_efi = EFI(energy, focus, intensity, gantry_angle),
                      !.efi_vacc = vaccnum],
                   reply.out)
       ELSE Raise(c, RuntimeError("You must call SelectVAcc() before SelectMEFI()!"))

(* SelectMEFI writing the record before the exit code is checked *)
BeamOptikDLL_SelectMEFI_early(self, vaccnum, energy, focus, intensity, gantry_angle, reply) ==
    LET c == CallWithIid(self, "SelectMEFI",
                 <<c_int(vaccnum), c_int(energy), c_int(focus), c_int(intensity),
                   c_int(gantry_angle),
                   Out("value0"), Out("value1"), Out("value2"), Out("value3")>>,
                 reply)
        d == IF vaccnum = self._selected_vacc
             THEN [c EXCEPT
                     !._selected_efi = EFI(energy, focus, intensity, gantry_angle),
                     !.efi_vacc = vaccnum]
             ELSE c
    IN IF c.exc # NoExc THEN d
       ELSE IF vaccnum = self._selected_vacc
       THEN Return(d, reply.out)
       ELSE Return(Warn(c, "You must call SelectVAcc() before SelectMEFI()!"),
                   reply.out)

BeamOptikDLL_SelectMEFI(self, vaccnum, energy, focus, intensity, gantry_angle, reply) ==
    LET c == CallWithIid(self, "SelectMEFI",
                 <<c_int(vaccnum), c_int(energy), c_int(focus), c_int(intensity),
                   c_int(gantry_angle),
                   Out("value0"), Out("value1"), Out("value2"), Out("value3")>>,
                 reply)
    IN IF c.exc # NoExc THEN c
       ELSE IF vaccnum = self._selected_vacc
       THEN Return([c EXCEPT
                      !._selected_efi = EFI(energy, focus, intensity, gantry_angle),
                      !.efi_vacc = vaccnum],
                   reply.out)
       ELSE Return(Warn(c, "You must call SelectVAcc() before SelectMEFI()!"),
                   reply.out)

BeamOptikDLL_GetSelectedVAcc(self, reply) ==
    LET c == CallWithIid(self, "GetSelectedVAcc", <<Out("vaccnum")>>, reply)
    IN IF c.exc # NoExc THEN c ELSE Return(c, <<reply.out[1]>>)

BeamOptikDLL_GetFloatValue(self, name, options, reply) ==
    LET c == CallWithIid(self, "GetFloatValue",
                 <<c_char_p(name), Out("value"), c_int(options)>>, reply)
    IN IF c.exc # NoExc THEN c ELSE Return(c, <<reply.out[1]>>)

BeamOptikDLL_SetFloatValue(self, name, value, options, reply) ==
    CallWithIid(self, "SetFloatValue",
        <<c_char_p(name), c_double(value), c_int(options)>>, reply)

BeamOptikDLL_ExecuteChanges(self, options, reply) ==
    CallWithIid(self, "ExecuteChanges", <<c_int(options)>>, reply)

BeamOptikDLL_GetFloatValueSD(self, name, options, reply) ==
    LET c == CallWithIid(self, "GetFloatValueSD",
                 <<c_char_p(name), Out("value"), c_int(options)>>, reply)
    IN IF c.exc # NoExc THEN c ELSE Return(c, <<reply.out[1]>>)

BeamOptikDLL_GetLastFloatValueSD(self, name, vaccnum, energy, focus, intensity, gantry_angle, options, reply) ==
    LET c == CallWithIid(self, "GetLastFloatValueSD",
                 <<c_char_p(name), Out("value"), c_int(vaccnum), c_int(options),
                   c_int(energy), c_int(focus), c_int(intensity),
                   c_int(gantry_angle)>>, reply)
    IN IF c.exc # NoExc THEN c ELSE Return(c, <<reply.out[1]>>)

BeamOptikDLL_StartRampDataGeneration(self, vaccnum, energy, focus, intensity, reply) ==
    LET c == CallWithIid(self, "StartRampDataGeneration",
                 <<c_int(vaccnum), c_int(energy), c_int(focus), c_int(intensity),
                   Out("order_num")>>, reply)
        sel_efi == self._selected_efi
    IN IF c.exc # NoExc THEN c
       ELSE IF \/ vaccnum # self._selected_vacc
               \/ energy # sel_efi.energy
               \/ focus # sel_efi.focus
               \/ intensity # sel_efi.intensity
       THEN Return(Warn(c, "You must call SelectEFI() before StartRampDataGeneration()!"),
                   <<reply.out[1]>>)
       ELSE Return(c, <<reply.out[1]>>)

BeamOptikDLL_GetRampDataValue(self, order_num, event_num, delay, parameter_name, device_name, reply) ==
    LET c == CallWithIid(self, "GetRampDataValue",
                 <<c_int(order_num), c_int(event_num), c_int(delay),
                   c_char_p(parameter_name), c_char_p(device_name),
                   Out("value")>>, reply)
    IN IF c.exc # NoExc THEN c ELSE Return(c, <<reply.out[1]>>)

(* returns (EFI(values), EFI(channels)): ret holds the four physical values
   followed by the four channel numbers *)
BeamOptikDLL_GetMEFIValue(self, reply) ==
    LET c == CallWithIid(self, "GetMEFIValue",
                 <<Out("value0"), Out("value1"), Out("value2"), Out("value3"),
                   Out("channel0"), Out("channel1"), Out("channel2"),
                   Out("channel3")>>, reply)
    IN IF c.exc # NoExc THEN c ELSE Return(c, reply.out)


-----------------------------------------------------------------------------
(* _HitACS: the backend facade over a BeamOptikDLL object (self._lib). *)

(* static position offsets (x, y) per monitor, in thousandths of a metre;
   monitors without an entry get (0, 0) *)
_offsets == [name \in {"m1"} |-> <<2, 0 - 3>>]

offsets_get(name) ==
    IF name \in DOMAIN _offsets THEN _offsets[name] ELSE <<0, 0>>

(* x / 1000 on fixed-point doubles *)
div1000(x) == x \div 1000

(* an argument the caller leaves out *)
Omitted == 0 - 2

(* execute that also stores the recorded selection in the settings *)
HitACS_execute_persisting(self, options, reply) ==
    LET r == BeamOptikDLL_ExecuteChanges(self,
                 IF options = Omitted THEN ExecOptions_CalcDif ELSE options, reply)
    IN IF r.settings.is_None THEN r
       ELSE [r EXCEPT !.settings = update(@, r._selected_vacc, <<>>)]

(* execute(self, options=ExecOptions.CalcDif) *)
HitACS_execute(self, options, reply) ==
    BeamOptikDLL_ExecuteChanges(self,
        IF options = Omitted THEN ExecOptions_CalcDif ELSE options, reply)

(* read_monitor that rejects negative widths only *)
HitACS_read_monitor_zero_width(self, name, replies) ==
    LET r1 == BeamOptikDLL_GetFloatValueSD(self, "posx_" \o name, 0, replies[1])
        r2 == BeamOptikDLL_GetFloatValueSD(r1, "posy_" \o name, 0, replies[2])
        r3 == BeamOptikDLL_GetFloatValueSD(r2, "widthx_" \o name, 0, replies[3])
        r4 == BeamOptikDLL_GetFloatValueSD(r3, "widthy_" \o name, 0, replies[4])
        r == IF r1.exc # NoExc THEN r1
             ELSE IF r2.exc # NoExc THEN r2
             ELSE IF r3.exc # NoExc THEN r3
             ELSE r4
        posx == r1.ret[1]
        posy == r2.ret[1]
        envx == r3.ret[1]
        envy == r4.ret[1]
        xoffs == offsets_get(name)[1]
        yoffs == offsets_get(name)[2]
    IN IF r.exc.type = "RuntimeError"
       THEN Return([r EXCEPT !.exc = NoExc], <<>>)
       ELSE IF r.exc # NoExc
       THEN Return(r, <<>>)
       ELSE IF posx = float(0 - 9999) \/ posy = float(0 - 9999) \/ envx < 0 \/ envy < 0
       THEN Return(r, <<>>)
       ELSE Return(r, << 0 - (div1000(posx) + xoffs),
                         div1000(posy) + yoffs,
                         div1000(envx),
                         div1000(envy) >>)

(* The four GetFloatValueSD reads in order; a read is issued only if the ones
   before it returned.  replies[k] answers the k-th native call.  ret holds
   the values of the keys posx, posy, envx, envy in this order, () for {}. *)
HitACS_read_monitor(self, name, replies) ==
    LET r1 == BeamOptikDLL_GetFloatValueSD(self, "posx_" \o name, 0, replies[1])
        r2 == BeamOptikDLL_GetFloatValueSD(r1, "posy_" \o name, 0, replies[2])
        r3 == BeamOptikDLL_GetFloatValueSD(r2, "widthx_" \o name, 0, replies[3])
        r4 == BeamOptikDLL_GetFloatValueSD(r3, "widthy_" \o name, 0, replies[4])
        r == IF r1.exc # NoExc THEN r1
             ELSE IF r2.exc # NoExc THEN r2
             ELSE IF r3.exc # NoExc THEN r3
             ELSE r4
        posx == r1.ret[1]
        posy == r2.ret[1]
        envx == r3.ret[1]
        envy == r4.ret[1]
        xoffs == offsets_get(name)[1]
        yoffs == offsets_get(name)[2]
    IN IF r.exc.type = "RuntimeError"
       THEN Return([r EXCEPT !.exc = NoExc], <<>>)
       ELSE IF r.exc # NoExc
       THEN Return(r, <<>>)
       ELSE IF posx = float(0 - 9999) \/ posy = float(0 - 9999) \/ envx <= 0 \/ envy <= 0
       THEN Return(r, <<>>)
       ELSE Return(r, << 0 - (div1000(posx) + xoffs),
                         div1000(posy) + yoffs,
                         div1000(envx),
                         div1000(envy) >>)

HitACS_read_param(self, param, reply) ==
    IF param = "gantry_angle"
    THEN LET r == BeamOptikDLL_GetMEFIValue(self, reply)
         IN IF r.exc # NoExc THEN Return(r, <<>>) ELSE Return(r, <<r.ret[4]>>)
    ELSE LET r == BeamOptikDLL_GetFloatValue(self, param, 0, reply)
         IN IF r.exc.type = "RuntimeError" THEN Return(LogError(r), <<>>)
            ELSE r

(* write_param that commits its write at once *)
HitACS_write_param_executing(self, param, value, reply) ==
    LET r == BeamOptikDLL_SetFloatValue(self, param, value, 0, reply)
    IN IF r.exc.type = "RuntimeError" THEN LogError(r)
       ELSE IF r.exc # NoExc THEN r
       ELSE BeamOptikDLL_ExecuteChanges(r, ExecOptions_CalcDif, reply)

(* write_param without its try/except *)
HitACS_write_param_raising(self, param, value, reply) ==
    BeamOptikDLL_SetFloatValue(self, param, value, 0, reply)

HitACS_write_param(self, param, value, reply) ==
    LET r == BeamOptikDLL_SetFloatValue(self, param, value, 0, reply)
    IN IF r.exc.type = "RuntimeError" THEN LogError(r) ELSE r

(* connect with the selection calls inside a try/except that logs *)
HitACS_connect_absorbing(self, replies) ==
    LET g == BeamOptikDLL_GetInterfaceInstance(self, replies[1])
        c == [g EXCEPT !.connected = TRUE]
        settings_ == IF bool(self.settings) THEN self.settings
                     ELSE dict({}, None, <<>>)
        v == IF get_vacc(settings_)
             THEN BeamOptikDLL_SelectVAcc(c, settings_.vacc, replies[2])
             ELSE c
        mefi == settings_.mefi
        m == IF get_vacc(settings_) /\ get_mefi(settings_)
             THEN BeamOptikDLL_SelectMEFI(v, settings_.vacc, mefi[1], mefi[2],
                                          mefi[3], mefi[4], replies[3])
             ELSE v
    IN IF g.exc # NoExc THEN Return(g, <<>>)
       ELSE IF v.exc # NoExc THEN Return(LogError(v), <<>>)
       ELSE IF m.exc # NoExc THEN Return(LogError(m), <<>>)
       ELSE Return(m, <<>>)

(* connect raising the flag after the selection calls *)
HitACS_connect_late(self, replies) ==
    LET g == BeamOptikDLL_GetInterfaceInstance(self, replies[1])
        settings_ == IF bool(self.settings) THEN self.settings
                     ELSE dict({}, None, <<>>)
        v == IF get_vacc(settings_)
             THEN BeamOptikDLL_SelectVAcc(g, settings_.vacc, replies[2])
             ELSE g
        mefi == settings_.mefi
        m == IF get_vacc(settings_) /\ get_mefi(settings_)
             THEN BeamOptikDLL_SelectMEFI(v, settings_.vacc, mefi[1], mefi[2],
                                          mefi[3], mefi[4], replies[3])
             ELSE v
    IN IF g.exc # NoExc THEN Return(g, <<>>)
       ELSE IF v.exc # NoExc THEN Return(v, <<>>)
       ELSE IF m.exc # NoExc THEN Return(m, <<>>)
       ELSE Return([m EXCEPT !.connected = TRUE], <<>>)

(* connect: replies[1..3] answer GetInterfaceInstance, SelectVAcc, SelectMEFI *)
HitACS_connect(self, replies) ==
    LET g == BeamOptikDLL_GetInterfaceInstance(self, replies[1])
        c == [g EXCEPT !.connected = TRUE]
        settings_ == IF bool(self.settings) THEN self.settings
                     ELSE dict({}, None, <<>>)
        v == IF get_vacc(settings_)
             THEN BeamOptikDLL_SelectVAcc(c, settings_.vacc, replies[2])
             ELSE c
        mefi == settings_.mefi
        m == IF get_vacc(settings_) /\ get_mefi(settings_)
             THEN BeamOptikDLL_SelectMEFI(v, settings_.vacc, mefi[1], mefi[2],
                                          mefi[3], mefi[4], replies[3])
             ELSE v
    IN IF g.exc # NoExc THEN Return(g, <<>>)
       ELSE IF v.exc # NoExc THEN Return(v, <<>>)
       ELSE Return(m, <<>>)

(* export_settings: replies[1..2] answer GetMEFIValue, GetSelectedVAcc; ret
   holds the exported 'vacc' followed by the four channels of 'mefi' *)
HitACS_export_settings(self, replies) ==
    LET m == BeamOptikDLL_GetMEFIValue(self, replies[1])
        v == BeamOptikDLL_GetSelectedVAcc(m, replies[2])
    IN IF m.exc # NoExc THEN m
       ELSE IF v.exc # NoExc THEN v
       ELSE Return(v, <<v.ret[1]>> \o SubSeq(m.ret, 5, 8))

(* disconnect freeing the session whether or not the export succeeded *)
HitACS_disconnect_finally(self, replies) ==
    LET e == HitACS_export_settings(self, replies)
        u == IF e.exc # NoExc THEN [e EXCEPT !.exc = NoExc]
             ELSE IF bool(self.settings)
             THEN [e EXCEPT !.settings = update(@, e.ret[1], SubSeq(e.ret, 2, 5))]
             ELSE e
        f == BeamOptikDLL_FreeInterfaceInstance(u, [done |-> 0, out |-> <<>>])
    IN IF f.exc # NoExc THEN Return(f, <<>>)
       ELSE IF e.exc # NoExc THEN Return([f EXCEPT !.connected = FALSE, !.exc = e.exc], <<>>)
       ELSE Return([f EXCEPT !.connected = FALSE], <<>>)

(* disconnect: replies[3] answers FreeInterfaceInstance.  The update goes to
   the host's dict only if `self.settings or {}` is that dict. *)
HitACS_disconnect(self, replies) ==
    LET e == HitACS_export_settings(self, replies)
        u == IF bool(self.settings)
             THEN [e EXCEPT !.settings = update(@, e.ret[1], SubSeq(e.ret, 2, 5))]
             ELSE e
        f == BeamOptikDLL_FreeInterfaceInstance(u, replies[3])
    IN IF e.exc # NoExc THEN Return(e, <<>>)
       ELSE IF f.exc # NoExc THEN Return(f, <<>>)
       ELSE Return([f EXCEPT !.connected = FALSE], <<>>)

(* str.lower() on the knob names in use *)
lower(str) ==
    CASE str = "kL_Q1" -> "kl_q1"
      [] str = "KL_Q1" -> "kl_q1"
      [] str = "gantry_angle" -> "gantry_angle"
      [] str = "Gantry_Angle" -> "gantry_angle"
      [] OTHER -> str

(* self._params: the catalog, a case-insensitive dict; its entries by the
   lower-cased key, each with its 'name' *)
_params == [key \in {lower(name) : name \in ParamNames} |->
               CHOOSE name \in ParamNames : lower(name) = key]

(* param_info: ret holds the name of the ParamInfo, () for None *)
HitACS_param_info(self, knob) ==
    IF lower(knob) \in DOMAIN _params
    THEN Return(self, <<_params[lower(knob)]>>)
    ELSE Return(self, <<>>)

ENERGY_PARAM_get(seq_name) ==
    CASE seq_name = "lebt" -> "E_SOURCE"
      [] seq_name = "mebt" -> "E_MEBT"
      [] OTHER -> "E_HEBT"

PERIODIC_TABLE == (1 :> "p") @@ (2 :> "He") @@ (6 :> "C") @@ (8 :> "O")

KeyError == [type |-> "KeyError", msg |-> "", code |-> 0]

(* round(x) of a fixed-point double to an integer: to the nearest, a tie to
   the even neighbour *)
round(x) ==
    LET q == x \div 1000
        rem == x % 1000
    IN IF rem < 500 THEN q
       ELSE IF rem > 500 THEN q + 1
       ELSE IF q % 2 = 0 THEN q ELSE q + 1

(* get_beam with the species looked up under the truncated reading *)
HitACS_get_beam_truncating(self, seq_name, replies) ==
    LET e_para == ENERGY_PARAM_get(seq_name)
        z == BeamOptikDLL_GetFloatValue(self, "Z_POSTSTRIP", 0, replies[1])
        a == BeamOptikDLL_GetFloatValue(z, "A_POSTSTRIP", 0, replies[2])
        q == BeamOptikDLL_GetFloatValue(a, "Q_POSTSTRIP", 0, replies[3])
        e == BeamOptikDLL_GetFloatValue(q, e_para, 0, replies[4])
        e_kin == IF e.ret[1] = 0 THEN float(1) ELSE e.ret[1]
        z_num == z.ret[1] \div 1000
    IN IF z.exc # NoExc THEN Return(z, <<>>)
       ELSE IF a.exc # NoExc THEN Return(a, <<>>)
       ELSE IF q.exc # NoExc THEN Return(q, <<>>)
       ELSE IF e.exc # NoExc THEN Return(e, <<>>)
       ELSE IF z_num \notin DOMAIN PERIODIC_TABLE
       THEN Raise(Return(e, <<>>), KeyError)
       ELSE Return(e, <<PERIODIC_TABLE[z_num], q.ret[1], a.ret[1], e_kin>>)

(* get_beam: seq_name is self._model().seq_name; replies[1..4] answer the
   reads of Z_POSTSTRIP, A_POSTSTRIP, Q_POSTSTRIP and the energy parameter.
   ret holds 'particle' and the charge number, the mass number and the
   kinetic energy per nucleon from which madgui's unit module makes 'charge',
   'mass' and 'energy'. *)
HitACS_get_beam(self, seq_name, replies) ==
    LET e_para == ENERGY_PARAM_get(seq_name)
        z == BeamOptikDLL_GetFloatValue(self, "Z_POSTSTRIP", 0, replies[1])
        a == BeamOptikDLL_GetFloatValue(z, "A_POSTSTRIP", 0, replies[2])
        q == BeamOptikDLL_GetFloatValue(a, "Q_POSTSTRIP", 0, replies[3])
        e == BeamOptikDLL_GetFloatValue(q, e_para, 0, replies[4])
        e_kin == IF e.ret[1] = 0 THEN float(1) ELSE e.ret[1]
        z_num == round(z.ret[1])
    IN IF z.exc # NoExc THEN Return(z, <<>>)
       ELSE IF a.exc # NoExc THEN Return(a, <<>>)
       ELSE IF q.exc # NoExc THEN Return(q, <<>>)
       ELSE IF e.exc # NoExc THEN Return(e, <<>>)
       ELSE IF z_num \notin DOMAIN PERIODIC_TABLE
       THEN Raise(Return(e, <<>>), KeyError)
       ELSE Return(e, <<PERIODIC_TABLE[z_num], q.ret[1], a.ret[1], e_kin>>)


-----------------------------------------------------------------------------
(* HitOnlineControl: the facade of hit_csys over a BeamOptikDLL object
   (self._dvm). *)

(* str.upper() on the names in use *)
upper(str) ==
    CASE str = "posx" -> "POSX"
      [] str = "posy" -> "POSY"
      [] str = "widthx" -> "WIDTHX"
      [] str = "widthy" -> "WIDTHY"
      [] str = "m1" -> "M1"
      [] str = "m2" -> "M2"

_get_sd_value(dvm, el_name, param_name, reply) ==
    LET r == BeamOptikDLL_GetFloatValueSD(dvm, upper(param_name) \o "_" \o upper(el_name),
                                          0, reply)
    IN IF r.exc # NoExc THEN r ELSE Return(r, <<div1000(r.ret[1])>>)

HitOnlineControl_connect(self, reply) ==
    Return(BeamOptikDLL_GetInterfaceInstance(self, reply), <<>>)

HitOnlineControl_disconnect(self, reply) ==
    Return(BeamOptikDLL_FreeInterfaceInstance(self, reply), <<>>)

HitOnlineControl_execute(self, options, reply) ==
    BeamOptikDLL_ExecuteChanges(self,
        IF options = Omitted THEN ExecOptions_CalcDif ELSE options, reply)

(* read_monitor without the try/except around the read *)
HitOnlineControl_read_monitor_raising(self, name, replies) ==
    LET keys_backend == <<"posx", "posy", "widthx", "widthy">>
        r1 == _get_sd_value(self, name, keys_backend[1], replies[1])
        r2 == _get_sd_value(r1, name, keys_backend[2], replies[2])
        r3 == _get_sd_value(r2, name, keys_backend[3], replies[3])
        r4 == _get_sd_value(r3, name, keys_backend[4], replies[4])
        leaves(r, src) ==
            \/ r.exc # NoExc
            \/ r.ret[1] = float(0 - 9999)
            \/ src \in {"widthx", "widthy"} /\ r.ret[1] <= 0
    IN IF leaves(r1, keys_backend[1]) THEN Return(r1, <<>>)
       ELSE IF leaves(r2, keys_backend[2]) THEN Return(r2, <<>>)
       ELSE IF leaves(r3, keys_backend[3]) THEN Return(r3, <<>>)
       ELSE IF leaves(r4, keys_backend[4]) THEN Return(r4, <<>>)
       ELSE Return(r4, <<0 - r1.ret[1], r2.ret[1], r3.ret[1], r4.ret[1]>>)

(* The loop over (posx, posy, widthx, widthy): iteration k is entered only if
   the ones before it kept their value.  replies[k] answers the k-th read. *)
HitOnlineControl_read_monitor(self, name, replies) ==
    LET keys_backend == <<"posx", "posy", "widthx", "widthy">>
        r1 == _get_sd_value(self, name, keys_backend[1], replies[1])
        r2 == _get_sd_value(r1, name, keys_backend[2], replies[2])
        r3 == _get_sd_value(r2, name, keys_backend[3], replies[3])
        r4 == _get_sd_value(r3, name, keys_backend[4], replies[4])
        leaves(r, src) ==
            \/ r.exc # NoExc
            \/ r.ret[1] = float(0 - 9999)
            \/ src \in {"widthx", "widthy"} /\ r.ret[1] <= 0
        empty(r) ==
            IF r.exc.type = "RuntimeError"
            THEN Return([r EXCEPT !.exc = NoExc], <<>>)
            ELSE Return(r, <<>>)
    IN IF leaves(r1, keys_backend[1]) THEN empty(r1)
       ELSE IF leaves(r2, keys_backend[2]) THEN empty(r2)
       ELSE IF leaves(r3, keys_backend[3]) THEN empty(r3)
       ELSE IF leaves(r4, keys_backend[4]) THEN empty(r4)
       ELSE Return(r4, <<0 - r1.ret[1], r2.ret[1], r3.ret[1], r4.ret[1]>>)

HitOnlineControl_read_param(self, param, reply) ==
    BeamOptikDLL_GetFloatValue(self, param, 0, reply)

HitOnlineControl_write_param(self, param, value, reply) ==
    BeamOptikDLL_SetFloatValue(self, param, value, 0, reply)


-----------------------------------------------------------------------------
(* Inputs of the environment *)

SDNames == {"posx", "posy", "widthx", "widthy"}

SDReplies(quantity) == Replies({<<v>> : v \in RawSD(quantity)})

(* placeholder for a native call that is never issued *)
NotIssued == [done |-> 0, out |-> <<>>]

SDFail == {r \in Replies({}) : TRUE}

SDOk(quantity) == {[done |-> 0, out |-> <<v>>] : v \in RawSD(quantity)}

(* Replies to the four reads of read_monitor: the reads after a failed one
   are not issued. *)
MonitorReplies ==
    {<<r1, NotIssued, NotIssued, NotIssued>> : r1 \in SDFail}
    \cup {<<r1, r2, NotIssued, NotIssued>> : r1 \in SDOk("posx"), r2 \in SDFail}
    \cup {<<r1, r2, r3, NotIssued>> :
              r1 \in SDOk("posx"), r2 \in SDOk("posy"), r3 \in SDFail}
    \cup {<<r1, r2, r3, r4>> :
              r1 \in SDOk("posx"), r2 \in SDOk("posy"),
              r3 \in SDOk("widthx"), r4 \in SDReplies("widthy")}

MEFIReplies == Replies({v \o c : v \in PhysEFI, c \in EFIChannels})

(* Replies to the native calls of connect (GetInterfaceInstance, SelectVAcc,
   SelectMEFI): the calls after a failed one are not issued. *)
ConnectReplies ==
    {<<g, NotIssued, NotIssued>> : g \in Replies({})}
    \cup {<<g, v, NotIssued>> :
              g \in Replies({<<i>> : i \in IIDs}) \ Replies({}), v \in Replies({})}
    \cup {<<g, [done |-> 0, out |-> <<>>], m>> :
              g \in Replies({<<i>> : i \in IIDs}) \ Replies({}), m \in Replies(PhysEFI)}

(* Channel tuples the native library reports as selected when the settings
   are exported, and those a persisted settings dict holds. *)
SettingsChannels == {t \in EFIChannels : t[2] = 1 /\ t[3] = 1 /\ t[4] = 0}

(* Replies to the native calls of disconnect (GetMEFIValue, GetSelectedVAcc,
   FreeInterfaceInstance). *)
DisconnectReplies ==
    {<<m, NotIssued, NotIssued>> : m \in Replies({})}
    \cup {<<[done |-> 0, out |-> <<100, 200, 300, 400>> \o c], v, NotIssued>> :
              c \in SettingsChannels, v \in Replies({})}
    \cup {<<[done |-> 0, out |-> <<100, 200, 300, 400>> \o c],
            [done |-> 0, out |-> <<n>>], f>> :
              c \in SettingsChannels, n \in VAccNums, f \in Replies({<<>>})}

(* The settings the host may construct the facade with: None, an empty dict,
   a dict without a selection, and dicts with a persisted selection. *)
SettingsRecords ==
    {NoSettings, dict({}, None, <<>>), dict({"runtime_path"}, None, <<>>)}
    \cup {dict({"runtime_path", "vacc"}, n, <<>>) : n \in VAccNums}
    \cup {dict({"vacc", "mefi"}, n, t) : n \in VAccNums, t \in SettingsChannels}

(* Beamline segments the host's model may hold, and knob names it may ask
   the parameter info of. *)
SegmentNames == {"lebt", "mebt", "hht3"}
KnobNames == {"kL_Q1", "KL_Q1", "Gantry_Angle", "dax_unknown"}

(* Raw Z_POSTSTRIP readings: 1.0, 6.4, 5.6, 7.5 and 3.0 *)
ZReadings == {float(1), 6400, 5600, 7500, float(3)}

FloatOk(values) == {[done |-> 0, out |-> <<v>>] : v \in values}

(* Replies to the four reads of get_beam: the reads after a failed one are
   not issued. *)
BeamReplies ==
    {<<z, NotIssued, NotIssued, NotIssued>> : z \in Replies({})}
    \cup {<<z, a, NotIssued, NotIssued>> :
              z \in FloatOk({float(6)}), a \in Replies({})}
    \cup {<<z, a, q, NotIssued>> :
              z \in FloatOk({float(6)}), a \in FloatOk({float(12)}),
              q \in Replies({})}
    \cup {<<z, a, q, e>> :
              z \in FloatOk(ZReadings), a \in FloatOk({float(12)}),
              q \in FloatOk({float(6)}), e \in Replies({<<v>> : v \in FloatValues})}

-----------------------------------------------------------------------------
(* The state machine *)

NoCall ==
    [op |-> "", args |-> <<>>, name |-> "", calls |-> <<>>,
     warnings |-> <<>>, errors |-> <<>>, exc |-> NoExc, ret |-> <<>>]

Init ==
    /\ _iid = None
    /\ _selected_vacc = None
    /\ _selected_efi = EFI(None, None, None, None)
    /\ efi_vacc = None
    /\ vacc_in_session = FALSE
    /\ native_life = [last |-> "", alternating |-> TRUE]
    /\ plugin = "hit_acs"
    /\ connected = FALSE
    /\ settings = NoSettings
    /\ store = NoStore
    /\ last = NoCall

(* Calls are synchronous and serialized: the host makes the next call after
   it has taken the result of the one before. *)
Ready == last = NoCall

(* The host calls `op(args)`; the handler runs to its end and leaves the object
   as `r`. *)
Commit(op, args, name, r) ==
    /\ _iid' = r._iid
    /\ _selected_vacc' = r._selected_vacc
    /\ _selected_efi' = r._selected_efi
    /\ efi_vacc' = r.efi_vacc
    /\ vacc_in_session' = r.vacc_in_session
    /\ native_life' = r.native_life
    /\ plugin' = plugin
    /\ connected' = r.connected
    /\ settings' = r.settings
    /\ store' = HostStore(r.store, op, args, name, r)
    /\ last' = [op |-> op, args |-> args, name |-> name, calls |-> r.calls,
                warnings |-> r.warnings, errors |-> r.errors,
                exc |-> r.exc, ret |-> r.ret]

DisableMessageBoxes ==
    /\ Ready
    /\ \E reply \in Replies({<<>>}) :
        Commit("DisableMessageBoxes", <<>>, "",
               BeamOptikDLL_DisableMessageBoxes(Self, reply))

GetInterfaceInstance ==
    /\ Ready
    /\ \E reply \in Replies({<<i>> : i \in IIDs}) :
        Commit("GetInterfaceInstance", <<>>, "",
               BeamOptikDLL_GetInterfaceInstance(Self, reply))

FreeInterfaceInstance ==
    /\ Ready
    /\ \E reply \in Replies({<<>>}) :
        Commit("FreeInterfaceInstance", <<>>, "",
               BeamOptikDLL_FreeInterfaceInstance(Self, reply))

GetDVMStatus ==
    /\ Ready
    /\ \E reply \in Replies({<<st>> : st \in DVMStatus}) :
        Commit("GetDVMStatus", <<>>, "", BeamOptikDLL_GetDVMStatus(Self, reply))

SelectVAcc ==
    /\ Ready
    /\ \E vaccnum \in VAccNums, reply \in Replies({<<>>}) :
        Commit("SelectVAcc", <<vaccnum>>, "",
               BeamOptikDLL_SelectVAcc(Self, vaccnum, reply))

SelectMEFI ==
    /\ Ready
    /\ \E vaccnum \in VAccNums, t \in EFIChannels, reply \in Replies(PhysEFI) :
        Commit("SelectMEFI", <<vaccnum>> \o t, "",
               BeamOptikDLL_SelectMEFI(Self, vaccnum, t[1], t[2], t[3], t[4], reply))

GetSelectedVAcc ==
    /\ Ready
    /\ \E reply \in Replies({<<n>> : n \in VAccNums}) :
        Commit("GetSelectedVAcc", <<>>, "", BeamOptikDLL_GetSelectedVAcc(Self, reply))

GetFloatValue ==
    /\ Ready
    /\ \E name \in ParamNames, options \in GetOptions,
       reply \in Replies({<<v>> : v \in FloatValues}) :
        Commit("GetFloatValue", <<options>>, name,
               BeamOptikDLL_GetFloatValue(Self, name, options, reply))

SetFloatValue ==
    /\ Ready
    /\ \E name \in ParamNames, value \in FloatValues, reply \in Replies({<<>>}) :
        Commit("SetFloatValue", <<value>>, name,
               BeamOptikDLL_SetFloatValue(Self, name, value, 0, reply))

ExecuteChanges ==
    /\ Ready
    /\ \E options \in ExecOptions, reply \in Replies({<<>>}) :
        Commit("ExecuteChanges", <<options>>, "",
               BeamOptikDLL_ExecuteChanges(Self, options, reply))

GetFloatValueSD ==
    /\ Ready
    /\ \E quantity \in SDNames, m \in MonitorNames :
      \E reply \in SDReplies(quantity) :
        Commit("GetFloatValueSD", <<>>, quantity \o "_" \o m,
               BeamOptikDLL_GetFloatValueSD(Self, quantity \o "_" \o m, 0, reply))

GetLastFloatValueSD ==
    /\ Ready
    /\ \E vaccnum \in VAccNums, t \in {<<1, 1, 1, 0>>}, reply \in SDReplies("posx") :
        Commit("GetLastFloatValueSD", <<vaccnum>> \o t, "posx_m1",
               BeamOptikDLL_GetLastFloatValueSD(Self, "posx_m1", vaccnum,
                                                t[1], t[2], t[3], t[4], 0, reply))

StartRampDataGeneration ==
    /\ Ready
    /\ \E vaccnum \in VAccNums, t \in {<<c[1], c[2], c[3]>> : c \in EFIChannels},
       reply \in Replies({<<n>> : n \in 0..1}) :
        Commit("StartRampDataGeneration", <<vaccnum, t[1], t[2], t[3]>>, "",
               BeamOptikDLL_StartRampDataGeneration(Self, vaccnum, t[1], t[2], t[3],
                                                    reply))

GetRampDataValue ==
    /\ Ready
    /\ \E order_num \in 0..1, reply \in Replies({<<v>> : v \in FloatValues}) :
        Commit("GetRampDataValue", <<order_num, 0, 0>>, "kL_Q1",
               BeamOptikDLL_GetRampDataValue(Self, order_num, 0, 0, "kL_Q1", "Q1",
                                             reply))

GetMEFIValue ==
    /\ Ready
    /\ \E reply \in Replies({v \o c : v \in PhysEFI, c \in EFIChannels}) :
        Commit("GetMEFIValue", <<>>, "", BeamOptikDLL_GetMEFIValue(Self, reply))

execute ==
    /\ Ready
    /\ plugin = "hit_acs"
    /\ \E options \in ExecOptions \cup {Omitted}, reply \in Replies({<<>>}) :
        Commit("execute", <<options>>, "", HitACS_execute(Self, options, reply))

read_monitor ==
    /\ Ready
    /\ plugin = "hit_acs"
    /\ \E name \in MonitorNames, replies \in MonitorReplies :
        Commit("read_monitor", <<>>, name, HitACS_read_monitor(Self, name, replies))

read_param ==
    /\ Ready
    /\ plugin = "hit_acs"
    /\ \E param \in ParamNames :
        \E reply \in IF param = "gantry_angle"
                     THEN Replies({v \o c : v \in PhysEFI, c \in EFIChannels})
                     ELSE Replies({<<v>> : v \in FloatValues}) :
            Commit("read_param", <<>>, param, HitACS_read_param(Self, param, reply))

write_param ==
    /\ Ready
    /\ plugin = "hit_acs"
    /\ \E param \in ParamNames, value \in FloatValues, reply \in Replies({<<>>}) :
        Commit("write_param", <<value>>, param,
               HitACS_write_param(Self, param, value, reply))

connect ==
    /\ Ready
    /\ plugin = "hit_acs"
    /\ \E replies \in ConnectReplies :
        Commit("connect", <<>>, "", HitACS_connect(Self, replies))

disconnect ==
    /\ Ready
    /\ plugin = "hit_acs"
    /\ \E replies \in DisconnectReplies :
        Commit("disconnect", <<>>, "", HitACS_disconnect(Self, replies))

param_info ==
    /\ Ready
    /\ plugin = "hit_acs"
    /\ \E knob \in KnobNames :
        Commit("param_info", <<>>, knob, HitACS_param_info(Self, knob))

get_beam ==
    /\ Ready
    /\ plugin = "hit_acs"
    /\ \E seq_name \in SegmentNames, replies \in BeamReplies :
        Commit("get_beam", <<>>, seq_name, HitACS_get_beam(Self, seq_name, replies))

hit_csys_connect ==
    /\ Ready
    /\ plugin = "hit_csys"
    /\ \E reply \in Replies({<<i>> : i \in IIDs}) :
        Commit("connect", <<>>, "", HitOnlineControl_connect(Self, reply))

hit_csys_disconnect ==
    /\ Ready
    /\ plugin = "hit_csys"
    /\ \E reply \in Replies({<<>>}) :
        Commit("disconnect", <<>>, "", HitOnlineControl_disconnect(Self, reply))

hit_csys_execute ==
    /\ Ready
    /\ plugin = "hit_csys"
    /\ \E options \in ExecOptions \cup {Omitted}, reply \in Replies({<<>>}) :
        Commit("execute", <<options>>, "",
               HitOnlineControl_execute(Self, options, reply))

hit_csys_read_monitor ==
    /\ Ready
    /\ plugin = "hit_csys"
    /\ \E name \in MonitorNames, replies \in MonitorReplies :
        Commit("read_monitor", <<>>, name,
               HitOnlineControl_read_monitor(Self, name, replies))

hit_csys_read_param ==
    /\ Ready
    /\ plugin = "hit_csys"
    /\ \E param \in ParamNames,
          reply \in Replies({<<v>> : v \in FloatValues}) :
        Commit("read_param", <<>>, param,
               HitOnlineControl_read_param(Self, param, reply))

hit_csys_write_param ==
    /\ Ready
    /\ plugin = "hit_csys"
    /\ \E param \in ParamNames, value \in FloatValues,
          reply \in Replies({<<>>}) :
        Commit("write_param", <<value>>, param,
               HitOnlineControl_write_param(Self, param, value, reply))

(* The host takes the result (return value or exception) of its call. *)
TakeResult ==
    /\ last # NoCall
    /\ last' = NoCall
    /\ UNCHANGED <<_iid, _selected_vacc, _selected_efi, efi_vacc, vacc_in_session,
                   native_life, plugin, connected, settings, store>>

Next ==
    \/ DisableMessageBoxes
    \/ GetInterfaceInstance
    \/ FreeInterfaceInstance
    \/ GetDVMStatus
    \/ SelectVAcc
    \/ SelectMEFI
    \/ GetSelectedVAcc
    \/ GetFloatValue
    \/ SetFloatValue
    \/ ExecuteChanges
    \/ GetFloatValueSD
    \/ GetLastFloatValueSD
    \/ StartRampDataGeneration
    \/ GetRampDataValue
    \/ GetMEFIValue
    \/ execute
    \/ read_monitor
    \/ read_param
    \/ write_param
    \/ TakeResult

Spec == Init /\ [][Next]_vars

(* The host that drives the control system through a plugin facade: it
   constructs one of the two facades, _HitACS with the settings it has kept,
   and calls the facade's operations only. *)
InitPlugin ==
    /\ _iid = None
    /\ _selected_vacc = None
    /\ _selected_efi = EFI(None, None, None, None)
    /\ efi_vacc = None
    /\ vacc_in_session = FALSE
    /\ native_life = [last |-> "", alternating |-> TRUE]
    /\ plugin \in {"hit_acs", "hit_csys"}
    /\ connected = FALSE
    /\ settings \in (IF plugin = "hit_acs" THEN SettingsRecords ELSE {NoSettings})
    /\ store = NoStore
    /\ last = NoCall

NextPlugin ==
    \/ connect
    \/ disconnect
    \/ execute
    \/ read_monitor
    \/ read_param
    \/ write_param
    \/ param_info
    \/ get_beam
    \/ hit_csys_connect
    \/ hit_csys_disconnect
    \/ hit_csys_execute
    \/ hit_csys_read_monitor
    \/ hit_csys_read_param
    \/ hit_csys_write_param
    \/ TakeResult

SpecPlugin == InitPlugin /\ [][NextPlugin]_vars

(* The host that writes, executes and reads parameters through _HitACS, with
   the history of the parameter store kept. *)
InitRoundTrip ==
    /\ _iid = None
    /\ _selected_vacc = None
    /\ _selected_efi = EFI(None, None, None, None)
    /\ efi_vacc = None
    /\ vacc_in_session = FALSE
    /\ native_life = [last |-> "", alternating |-> TRUE]
    /\ plugin = "hit_acs"
    /\ connected = FALSE
    /\ settings = NoSettings
    /\ store = [NoStore EXCEPT !.tracked = TRUE]
    /\ last = NoCall

NextRoundTrip ==
    \/ connect
    \/ write_param
    \/ execute
    \/ read_param
    \/ TakeResult

SpecRoundTrip == InitRoundTrip /\ [][NextRoundTrip]_vars


-----------------------------------------------------------------------------
(* Properties *)

NotOpenError ==
    RuntimeError("GetInterfaceInstance must be called before using other methods.")

TwiceError == RuntimeError("GetInterfaceInstance cannot be called twice.")

NoEFI == EFI(None, None, None, None)

SelectMEFIWarning == "You must call SelectVAcc() before SelectMEFI()!"

SessionOps ==
    {"FreeInterfaceInstance", "GetDVMStatus", "SelectVAcc", "SelectMEFI",
     "GetSelectedVAcc", "GetFloatValue", "SetFloatValue", "ExecuteChanges",
     "GetFloatValueSD", "GetLastFloatValueSD", "StartRampDataGeneration",
     "GetRampDataValue", "GetMEFIValue"}

WrapperOps == SessionOps \cup {"GetInterfaceInstance", "DisableMessageBoxes"}

TelemetryOps == {"read_param", "read_monitor", "write_param"}

(* the native calls of the last operation to the given function *)
CallsTo(function) ==
    {k \in 1..Len(last.calls) : last.calls[k].function = function}

(* C1: in the Unopened state every session operation of BeamOptikDLL fails
   with the usage error of the iid property, issues no native call and leaves
   the session id, the VAcc record and the EFI record unchanged. *)
C1_UnopenedOperationsFail ==
    [][ (_iid = None /\ last'.op \in SessionOps)
          => /\ last'.exc = NotOpenError
             /\ last'.calls = <<>>
             /\ UNCHANGED <<_iid, _selected_vacc, _selected_efi>> ]_vars

(* an operation rejected in the Unopened state that follows a session in
   which a selection was made *)
C1_Witness ==
    /\ _iid = None
    /\ _selected_vacc # None
    /\ last.op = "SelectMEFI"
    /\ last.exc = NotOpenError
    /\ last.calls = <<>>

(* C2: GetInterfaceInstance called while a session is open fails with a usage
   error before any native call is issued and leaves the session id
   unchanged. *)
C2_OpenTwiceRejected ==
    [][ (_iid # None /\ last'.op = "GetInterfaceInstance")
          => /\ last'.exc = TwiceError
             /\ last'.calls = <<>>
             /\ _iid' = _iid ]_vars

C2_Witness ==
    /\ last.op = "GetInterfaceInstance"
    /\ last.exc = TwiceError
    /\ last.calls = <<>>
    /\ _iid # None

(* C3: the successful native GetInterfaceInstance and FreeInterfaceInstance
   calls alternate, starting with GetInterfaceInstance; the wrapper holds a
   session id exactly while the native library holds an open instance; and
   an open is rejected only while an instance is open, so that after a
   successful close a new open is accepted. *)
C3_LifecycleAlternates ==
    /\ native_life.alternating
    /\ (_iid # None) <=> (native_life.last = "GetInterfaceInstance")
    /\ (last.op = "GetInterfaceInstance" /\ last.exc = TwiceError)
          => native_life.last = "GetInterfaceInstance"

(* a second session: an open that succeeded after a session in which a VAcc
   had been selected was closed *)
C3_Witness ==
    /\ last.op = "GetInterfaceInstance"
    /\ last.exc = NoExc
    /\ CallsTo("GetInterfaceInstance") # {}
    /\ _selected_vacc # None
    /\ native_life.alternating

(* C4: a successful FreeInterfaceInstance clears the session id and the
   recorded VAcc and EFI selections, so that the open that follows a close
   starts with both selections absent. *)
C4_CloseClearsSelection ==
    /\ (last.op = "FreeInterfaceInstance" /\ last.exc = NoExc)
          => (_iid = None /\ _selected_vacc = None /\ _selected_efi = NoEFI)
    /\ (last.op = "GetInterfaceInstance" /\ last.exc = NoExc)
          => (_iid # None /\ _selected_vacc = None /\ _selected_efi = NoEFI)

(* C5 as stated: a native SelectMEFI call is issued only in an open session
   in which a SelectVAcc has already succeeded. *)
C5_SelectMEFIOnlyAfterSelectVAcc ==
    \A k \in CallsTo("SelectMEFI") :
        /\ last.calls[k].args[1].n # None
        /\ vacc_in_session

(* C5 amended: a native SelectMEFI call is issued only in an open session,
   whether or not a VAcc has been selected; the EFI selection is recorded
   only for a VAcc that a successful SelectVAcc has recorded. *)
C5_SelectMEFIOnlyInSession ==
    /\ \A k \in CallsTo("SelectMEFI") :
          /\ _iid # None
          /\ last.calls[k].args[1] = c_int(_iid)
    /\ _selected_efi # NoEFI => (_selected_vacc # None /\ efi_vacc # None)

(* a native SelectMEFI call issued in a session opened before any SelectVAcc *)
C5_Witness ==
    /\ last.op = "SelectMEFI"
    /\ CallsTo("SelectMEFI") # {}
    /\ last.exc = NoExc
    /\ _selected_vacc = None
    /\ ~vacc_in_session

(* C6: a SelectMEFI whose VAcc argument differs from the recorded VAcc (or
   with no VAcc recorded) and whose native call succeeds leaves the EFI
   record, the VAcc record and the session id unchanged, emits the
   consistency warning and returns the physical quadruple the native call
   wrote. *)
C6_MismatchKeepsRecord ==
    [][ ( /\ last'.op = "SelectMEFI"
          /\ Len(last'.calls) = 1
          /\ last'.calls[1].done = 0
          /\ last'.args[1] # _selected_vacc )
          => /\ UNCHANGED <<_selected_efi, _selected_vacc, _iid>>
             /\ last'.warnings = <<SelectMEFIWarning>>
             /\ last'.exc = NoExc
             /\ last'.ret \in PhysEFI
             /\ last'.ret = last'.calls[1].out ]_vars

(* a mismatching SelectMEFI after an EFI selection was recorded for another VAcc *)
C6_Witness ==
    /\ last.op = "SelectMEFI"
    /\ Len(last.calls) = 1
    /\ last.calls[1].done = 0
    /\ _selected_vacc # None
    /\ last.args[1] # _selected_vacc
    /\ _selected_efi # NoEFI
    /\ _selected_efi # EFI(last.args[2], last.args[3], last.args[4], last.args[5])
    /\ last.warnings = <<SelectMEFIWarning>>
    /\ last.ret = last.calls[1].out

(* the step is a SelectMEFI whose native call succeeds and whose VAcc
   argument equals the recorded VAcc *)
RecordingSelectMEFI ==
    /\ last'.op = "SelectMEFI"
    /\ Len(last'.calls) = 1
    /\ last'.calls[1].done = 0
    /\ last'.args[1] = _selected_vacc

(* C7: a SelectMEFI whose native call succeeds and whose VAcc argument equals
   the recorded VAcc sets the EFI record to the requested channel tuple;
   every other step leaves the EFI record unchanged. *)
C7_EFIRecordUpdate ==
    [][ /\ RecordingSelectMEFI
          => _selected_efi' = EFI(last'.args[2], last'.args[3],
                                  last'.args[4], last'.args[5])
        /\ ~RecordingSelectMEFI => UNCHANGED _selected_efi ]_vars

(* a second, different EFI selection recorded for the selected VAcc *)
C7_Witness ==
    /\ last.op = "SelectMEFI"
    /\ last.exc = NoExc
    /\ last.warnings = <<>>
    /\ last.args[1] = _selected_vacc
    /\ _selected_efi = EFI(last.args[2], last.args[3], last.args[4], last.args[5])
    /\ _selected_efi.energy # 1

(* C8: a StartRampDataGeneration whose native call succeeds does not fail,
   changes no selection state, and warns whenever its (vacc, energy, focus,
   intensity) differ from those of the last SelectMEFI that recorded a
   selection (or when there has been none). *)
C8_RampWarnsOnMismatch ==
    [][ ( /\ last'.op = "StartRampDataGeneration"
          /\ Len(last'.calls) = 1
          /\ last'.calls[1].done = 0 )
          => /\ last'.exc = NoExc
             /\ UNCHANGED <<_iid, _selected_vacc, _selected_efi>>
             /\ last'.args # <<efi_vacc, _selected_efi.energy,
                               _selected_efi.focus, _selected_efi.intensity>>
                  => last'.warnings # <<>> ]_vars

(* C9: check_return maps exit code 0 to no exception, each code k in 1..10 to
   a RuntimeError carrying the k-th message of the error table, and every
   other code to a ValueError carrying the raw code. *)
C9_CheckReturnClassifies ==
    (last.op \in WrapperOps /\ Len(last.calls) = 1)
      => LET done == last.calls[1].done
         IN /\ Len(error_messages) = 11
            /\ done = 0 => last.exc = NoExc
            /\ done \in 1..10
                 => last.exc = RuntimeError(error_messages[done + 1])
            /\ done = 3 => last.exc.msg = "GetValue failed."
            /\ done = 10 => last.exc.msg = "Invalid offset for ramp function."
            /\ (done < 0 \/ done > 10)
                 => last.exc = ValueError("Unknown error: %i", done)

(* exit code 11, the first code past the table *)
C9_Witness ==
    /\ last.op \in WrapperOps
    /\ Len(last.calls) = 1
    /\ last.calls[1].done = 11
    /\ last.exc.type = "ValueError"
    /\ last.exc.code = 11

(* C10: read_monitor, write_param and the float read of read_param absorb an
   unclassified native failure as they absorb a classified one: no exception
   reaches the host and no value is returned. *)
C10_UnclassifiedAbsorbed ==
    ( /\ last.op \in TelemetryOps
      /\ last.name # "gantry_angle"
      /\ \E k \in 1..Len(last.calls) :
            last.calls[k].done < 0 \/ last.calls[k].done > 10 )
      => (last.exc = NoExc /\ last.ret = <<>>)


(* the native calls of the last operation that failed with a classified exit
   code (one of the codes of the error table) *)
ClassifiedCalls ==
    {k \in 1..Len(last.calls) :
        last.calls[k].done > 0 /\ last.calls[k].done < Len(error_messages)}

(* C11: read_param never raises a classified native failure to the host: for
   every parameter name, gantry_angle included, a classified failure of the
   native read is logged and no value is returned. *)
C11_ReadParamAbsorbsClassified ==
    (last.op = "read_param" /\ ClassifiedCalls # {})
      => /\ last.exc = NoExc
         /\ last.ret = <<>>
         /\ last.errors # <<>>

(* C12: a write_param whose native SetFloatValue fails with a classified exit
   code logs the failure, raises nothing and leaves the session open; and a
   write_param made in an open session always issues its native SetFloatValue.
   So a write that follows a failed one is issued. *)
C12_WriteParamAbsorbsClassified ==
    [][ last'.op = "write_param"
          => /\ _iid # None
                  => /\ Len(last'.calls) = 1
                     /\ last'.calls[1].function = "SetFloatValue"
             /\ (\E k \in 1..Len(last'.calls) :
                    last'.calls[k].done > 0
                      /\ last'.calls[k].done < Len(error_messages))
                  => /\ last'.exc = NoExc
                     /\ last'.errors
                          = <<RuntimeError(error_messages[last'.calls[1].done + 1])>>
                     /\ _iid' = _iid
                     /\ _iid' # None ]_vars

(* a write whose SetFloatValue answered "SetValue failed." and that returned
   normally with the session still open *)
C12_Witness ==
    /\ last.op = "write_param"
    /\ Len(last.calls) = 1
    /\ last.calls[1].done = 4
    /\ last.exc = NoExc
    /\ last.errors = <<RuntimeError("SetValue failed.")>>
    /\ _iid # None


ControlCalls ==
    {"GetInterfaceInstance", "SelectVAcc", "SelectMEFI", "FreeInterfaceInstance"}

(* C13: in connect and disconnect of both facades nothing is absorbed: a
   nonzero exit code of GetInterfaceInstance, SelectVAcc, SelectMEFI or
   FreeInterfaceInstance ends the operation with the exception check_return
   makes of it, a connect in an open session ends with the usage error of
   GetInterfaceInstance, and nothing is logged instead of raised. *)
C13_ControlFailuresPropagate ==
    [][ last'.op \in {"connect", "disconnect"}
          => /\ \A k \in 1..Len(last'.calls) :
                   (last'.calls[k].function \in ControlCalls /\ last'.calls[k].done # 0)
                     => /\ k = Len(last'.calls)
                        /\ last'.exc # NoExc
                        /\ last'.exc.type \in {"RuntimeError", "ValueError"}
                        /\ last'.exc = check_return(last'.calls[k].done)
             /\ (last'.op = "connect" /\ _iid # None)
                   => (last'.exc = TwiceError /\ last'.calls = <<>>)
             /\ last'.errors = <<>> ]_vars

(* a connect whose re-applied SelectMEFI failed with an unclassified exit
   code, raised to the host as ValueError *)
C13_Witness ==
    /\ last.op = "connect"
    /\ Len(last.calls) = 3
    /\ last.calls[3].function = "SelectMEFI"
    /\ last.calls[3].done = 11
    /\ last.exc = ValueError("Unknown error: %i", 11)


(* C14: a write_param issues one native SetFloatValue (none outside a session)
   and no other native call; a native ExecuteChanges is issued only by
   execute(), once per call, with the mode the caller gave, or CalcDif (1) if
   the caller gave none.  A written value is therefore committed no earlier
   than the execute() that follows the write. *)
C14_WritesCommittedByExecute ==
    [][ /\ last'.op = "write_param"
             => /\ Len(last'.calls) = (IF _iid # None THEN 1 ELSE 0)
                /\ \A k \in 1..Len(last'.calls) :
                      last'.calls[k].function = "SetFloatValue"
        /\ (\E k \in 1..Len(last'.calls) : last'.calls[k].function = "ExecuteChanges")
             => last'.op = "execute"
        /\ last'.op = "execute"
             => /\ Len(last'.calls) = (IF _iid # None THEN 1 ELSE 0)
                /\ \A k \in 1..Len(last'.calls) :
                      /\ last'.calls[k].function = "ExecuteChanges"
                      /\ last'.calls[k].args
                           = <<c_int(_iid),
                               c_int(IF last'.args[1] \in ExecOptions
                                     THEN last'.args[1] ELSE 1),
                               Done>> ]_vars

(* an execute() without a mode, committed by the native library as CalcDif *)
C14_Witness ==
    /\ last.op = "execute"
    /\ last.args = <<Omitted>>
    /\ Len(last.calls) = 1
    /\ last.calls[1].function = "ExecuteChanges"
    /\ last.calls[1].args[2] = c_int(1)
    /\ last.calls[1].done = 0
    /\ last.exc = NoExc


(* the raw values the native reads of the last operation returned *)
RawValues == {k \in 1..Len(last.calls) : last.calls[k].done = 0}

(* C16: _HitACS.read_monitor returns the empty record whenever one of the raw
   values it read is the sentinel -9999 or one of the two widths is <= 0, and
   its result is either empty or holds all four of posx, posy, envx, envy. *)
C16_ReadMonitorPlausibility ==
    (last.op = "read_monitor" /\ plugin = "hit_acs")
      => /\ Len(last.ret) \in {0, 4}
         /\ (\E k \in RawValues : last.calls[k].out[1] = float(0 - 9999))
               => last.ret = <<>>
         /\ (\E k \in RawValues \cap {3, 4} : last.calls[k].out[1] <= 0)
               => last.ret = <<>>
         /\ last.ret # <<>>
               => /\ RawValues = 1..4
                  /\ \A k \in 1..4 :
                        last.calls[k].function = "GetFloatValueSD"

(* three plausible values and a width of zero give the empty record *)
C16_Witness ==
    /\ last.op = "read_monitor"
    /\ plugin = "hit_acs"
    /\ RawValues = 1..4
    /\ last.calls[1].out[1] = float(1000)
    /\ last.calls[2].out[1] = float(2000)
    /\ last.calls[3].out[1] = float(1)
    /\ last.calls[4].out[1] = float(0)
    /\ last.exc = NoExc
    /\ last.ret = <<>>

(* C17: when one of the four native SD reads of read_monitor fails with a
   classified exit code, read_monitor (of either facade) raises nothing and
   returns the empty record: the values read before are dropped and no further
   read is issued. *)
C17_ReadMonitorAbsorbsClassified ==
    (last.op = "read_monitor" /\ ClassifiedCalls # {})
      => /\ last.exc = NoExc
         /\ last.ret = <<>>
         /\ ClassifiedCalls = {Len(last.calls)}

(* the third read answers "Parameter not found in internal DVM list." after
   two values were read *)
C17_Witness ==
    /\ last.op = "read_monitor"
    /\ plugin = "hit_csys"
    /\ Len(last.calls) = 3
    /\ last.calls[1].out = <<float(1000)>>
    /\ last.calls[2].out = <<float(2000)>>
    /\ last.calls[3].done = 2
    /\ last.exc = NoExc
    /\ last.ret = <<>>

(* C18: for a plausible reading (px, py, wx, wy) of a monitor with static
   offset (xo, yo), _HitACS.read_monitor returns posx = -(px/1000 - xo),
   posy = py/1000 - yo, envx = wx/1000, envy = wy/1000; with zero offsets the
   raw reading (1000, 2000, 1, 1) gives (-1.0, 2.0, 0.001, 0.001). *)
C18_ReadMonitorConversion ==
    (last.op = "read_monitor" /\ plugin = "hit_acs" /\ last.ret # <<>>)
      => LET px == last.calls[1].out[1]
             py == last.calls[2].out[1]
             wx == last.calls[3].out[1]
             wy == last.calls[4].out[1]
             xo == offsets_get(last.name)[1]
             yo == offsets_get(last.name)[2]
         IN /\ last.ret = << 0 - (div1000(px) - xo), div1000(py) - yo,
                             div1000(wx), div1000(wy) >>
            /\ ( /\ <<xo, yo>> = <<0, 0>>
                 /\ <<px, py, wx, wy>> = <<float(1000), float(2000), float(1), float(1)>> )
                 => last.ret = <<0 - 1000, 2000, 1, 1>>


(* the settings dict holds the key *)
has_key(d, key) == ~d.is_None /\ key \in d.keys

(* C19: a connect of _HitACS that opens the session re-applies the persisted
   selection: with 'vacc' = n in the settings (any n, 0 included) it issues
   SelectVAcc(n) after the open, with 'mefi' = (e, f, i, g) too it then issues
   SelectMEFI(n, e, f, i, g), and when it succeeds the recorded VAcc is n and
   the recorded EFI is (e, f, i, g); without 'vacc' it issues no selection
   call. *)
C19_ConnectReappliesSelection ==
    [][ ( /\ last'.op = "connect"
          /\ plugin = "hit_acs"
          /\ Len(last'.calls) >= 1
          /\ last'.calls[1].done = 0 )
          => LET calls == last'.calls
                 n == settings.vacc
                 t == settings.mefi
             IN /\ has_key(settings, "vacc")
                     => /\ Len(calls) >= 2
                        /\ calls[2].function = "SelectVAcc"
                        /\ calls[2].args = <<c_int(_iid'), c_int(n), Done>>
                /\ (has_key(settings, "vacc") /\ has_key(settings, "mefi")
                       /\ Len(calls) >= 2 /\ calls[2].done = 0)
                     => /\ Len(calls) = 3
                        /\ calls[3].function = "SelectMEFI"
                        /\ SubSeq(calls[3].args, 1, 6)
                             = <<c_int(_iid'), c_int(n), c_int(t[1]), c_int(t[2]),
                                 c_int(t[3]), c_int(t[4])>>
                /\ (has_key(settings, "vacc") /\ last'.exc = NoExc)
                     => /\ _selected_vacc' = n
                        /\ has_key(settings, "mefi")
                              => _selected_efi' = EFI(t[1], t[2], t[3], t[4])
                /\ ~has_key(settings, "vacc")
                     => \A k \in 1..Len(calls) :
                          calls[k].function \notin {"SelectVAcc", "SelectMEFI"} ]_vars

(* C20: after a disconnect of _HitACS that succeeded, the settings dict the
   host supplied (an empty one included) holds under 'vacc' the VAcc number
   and under 'mefi' the EFI channel 4-tuple that the control system reported
   as selected during the disconnect. *)
C20_DisconnectPersistsSelection ==
    [][ ( /\ last'.op = "disconnect"
          /\ plugin = "hit_acs"
          /\ last'.exc = NoExc
          /\ ~settings.is_None )
          => /\ has_key(settings', "vacc")
             /\ has_key(settings', "mefi")
             /\ Len(last'.calls) = 3
             /\ settings'.vacc = last'.calls[2].out[1]
             /\ settings'.mefi = SubSeq(last'.calls[1].out, 5, 8) ]_vars


(* C15: in a connected session, once the host has written v to a parameter of
   the catalog (gantry_angle is one) and executed, a read_param of that
   parameter whose native calls succeed, with the native GetFloatValue
   answering from the committed store, returns v; an identical write repeated
   before the execute changes nothing. *)
C15_RoundTrip ==
    [][ ( /\ last'.op = "read_param"
          /\ store.tracked
          /\ _iid # None
          /\ store.executed[last'.name] # None
          /\ \A k \in 1..Len(last'.calls) :
                /\ last'.calls[k].done = 0
                /\ last'.calls[k].function = "GetFloatValue"
                      => last'.calls[k].out
                           = <<store.committed[last'.calls[k].args[2].s]>> )
          => /\ last'.exc = NoExc
             /\ last'.ret = <<store.executed[last'.name]>> ]_vars


(* C21: the settings record changes only within connect and disconnect:
   execute, param_info, read_monitor, read_param, write_param and get_beam
   leave every key and value of it unchanged, whether they succeed or fail,
   and so does the host taking a result. *)
C21_SettingsFrame ==
    [][ last'.op \notin {"connect", "disconnect"} => settings' = settings ]_vars

(* an execute that failed at its native call in a session reopened with
   settings a disconnect had written *)
C21_Witness ==
    /\ last.op = "execute"
    /\ Len(last.calls) = 1
    /\ last.calls[1].done # 0
    /\ last.exc # NoExc
    /\ has_key(settings, "variant")
    /\ has_key(settings, "runtime_path")
    /\ _selected_vacc # None


(* C22: a get_beam whose four reads succeed reads Z_POSTSTRIP, A_POSTSTRIP,
   Q_POSTSTRIP and then the energy parameter, which is E_SOURCE for segment
   lebt, E_MEBT for segment mebt and E_HEBT for every other segment; when the
   Z_POSTSTRIP reading rounds to a key n of the table {1: p, 2: He, 6: C,
   8: O} (it is closer to n than to any other integer, or it is 7.5) the
   call returns and the species is the entry of n; 6.4 gives C. *)
C22_GetBeamSpecies ==
    ( /\ last.op = "get_beam"
      /\ Len(last.calls) = 4
      /\ \A k \in 1..4 : last.calls[k].done = 0 )
      => LET z == last.calls[1].out[1]
             table == [n \in {1, 2, 6, 8} |->
                         CASE n = 1 -> "p" [] n = 2 -> "He"
                           [] n = 6 -> "C" [] n = 8 -> "O"]
             dist(n) == IF z >= float(n) THEN z - float(n) ELSE float(n) - z
         IN /\ \A k \in 1..4 : last.calls[k].function = "GetFloatValue"
            /\ <<last.calls[1].args[2].s, last.calls[2].args[2].s,
                  last.calls[3].args[2].s>>
                 = <<"Z_POSTSTRIP", "A_POSTSTRIP", "Q_POSTSTRIP">>
            /\ last.calls[4].args[2].s
                 = (IF last.name = "lebt" THEN "E_SOURCE"
                    ELSE IF last.name = "mebt" THEN "E_MEBT"
                    ELSE "E_HEBT")
            /\ \A n \in {1, 2, 6, 8} :
                  (2 * dist(n) < 1000 \/ (n = 8 /\ z = 7500))
                    => /\ last.exc = NoExc
                       /\ last.ret[1] = table[n]
            /\ z = 6400 => last.ret[1] = "C"

(* a Z reading of 5.6 in segment lebt: carbon, with the energy read from
   E_SOURCE *)
C22_Witness ==
    /\ last.op = "get_beam"
    /\ last.name = "lebt"
    /\ Len(last.calls) = 4
    /\ last.calls[1].out = <<5600>>
    /\ last.calls[4].done = 0
    /\ last.calls[4].args[2].s = "E_SOURCE"
    /\ last.exc = NoExc
    /\ last.ret[1] = "C"


(* the argument list without the element at position i (counted from 1) *)
Without(args, i) == SubSeq(args, 1, i - 1) \o SubSeq(args, i + 1, Len(args))

(* C23: a wrapper operation that passes its session check issues exactly one
   native call, of its own function, and one that does not issues none.  The
   argument list of every native call holds exactly one status slot: for
   SelectMEFI at position 6 counted from 0, after iid, vacc, energy, focus,
   intensity and gantry angle and before the four outputs, for every other
   function at the end; the other arguments are the caller's, in their order.
   The operation ends with what check_return makes of the exit code written
   to the slot. *)
C23_CallProtocol ==
    [][ /\ last'.op \in WrapperOps
          => /\ Len(last'.calls)
                  = (IF last'.exc \in {NotOpenError, TwiceError} THEN 0 ELSE 1)
             /\ \A k \in 1..Len(last'.calls) :
                   /\ last'.calls[k].function = last'.op
                   /\ last'.exc = check_return(last'.calls[k].done)
                   /\ last'.calls[k].done # 0 => last'.exc # NoExc
        /\ \A k \in 1..Len(last'.calls) :
             LET c == last'.calls[k]
                 slot == IF c.function = "SelectMEFI" THEN 6 + 1 ELSE Len(c.args)
                 caller == Without(c.args, slot)
             IN /\ c.args[slot] = Done
                /\ \A j \in 1..Len(caller) : caller[j].kind # "Done"
                /\ c.function \notin {"DisableMessageBoxes", "GetInterfaceInstance"}
                      => caller[1] = c_int(_iid)
                /\ (last'.op = "SelectMEFI")
                      => caller = <<c_int(_iid), c_int(last'.args[1]),
                                    c_int(last'.args[2]), c_int(last'.args[3]),
                                    c_int(last'.args[4]), c_int(last'.args[5]),
                                    Out("value0"), Out("value1"), Out("value2"),
                                    Out("value3")>>
                /\ (last'.op = "SelectVAcc")
                      => caller = <<c_int(_iid), c_int(last'.args[1])>>
                /\ (last'.op = "SetFloatValue")
                      => caller = <<c_int(_iid), c_char_p(last'.name),
                                    c_double(last'.args[1]), c_int(0)>>
                /\ (last'.op = "GetInterfaceInstance")
                      => caller = <<Out("iid")>>
                /\ (last'.op = "DisableMessageBoxes") => caller = <<>> ]_vars

(* a SelectMEFI answered "SetValue failed.": one native call, the slot
   between the gantry angle and the first output, the failure raised *)
C23_Witness ==
    /\ last.op = "SelectMEFI"
    /\ Len(last.calls) = 1
    /\ Len(last.calls[1].args) = 11
    /\ last.calls[1].args[6] = c_int(last.args[5])
    /\ last.calls[1].args[7] = Done
    /\ last.calls[1].args[8] = Out("value0")
    /\ last.calls[1].done = 4
    /\ last.exc = RuntimeError("SetValue failed.")


(* C24: a GetInterfaceInstance, FreeInterfaceInstance or SelectVAcc whose
   native call answers a nonzero exit code raises the failure to the caller
   and leaves the session state as it was: the session stays Unopened, the
   session id stays set, the recorded VAcc keeps its previous value. *)
C24_FailedCallKeepsState ==
    [][ ( /\ last'.op \in {"GetInterfaceInstance", "FreeInterfaceInstance",
                            "SelectVAcc"}
          /\ Len(last'.calls) = 1
          /\ last'.calls[1].done # 0 )
          => /\ last'.exc.type \in {"RuntimeError", "ValueError"}
             /\ UNCHANGED <<_iid, _selected_vacc, _selected_efi>>
             /\ last'.op = "GetInterfaceInstance" => _iid' = None
             /\ last'.op # "GetInterfaceInstance" => _iid' # None ]_vars

(* a SelectVAcc of another number that failed: the number selected before is
   still recorded *)
C24_Witness ==
    /\ last.op = "SelectVAcc"
    /\ Len(last.calls) = 1
    /\ last.calls[1].done # 0
    /\ last.exc # NoExc
    /\ _iid # None
    /\ _selected_vacc # None
    /\ _selected_vacc # last.args[1]


(* C25: HitOnlineControl.read_monitor returns the empty record whenever one
   of the raw SD values the native library returned is the sentinel -9999,
   and whenever a raw width is <= 0; the raw reading (-9999, 2000, 1, 1)
   gives the empty record. *)
C25_CsysReadMonitorSentinel ==
    (last.op = "read_monitor" /\ plugin = "hit_csys")
      => /\ (\E k \in RawValues : last.calls[k].out[1] = float(0 - 9999))
               => last.ret = <<>>
         /\ (\E k \in RawValues \cap {3, 4} : last.calls[k].out[1] <= 0)
               => last.ret = <<>>


(* C26: with the session driven through the _HitACS facade only, in every
   state, whatever connects and disconnects have succeeded or failed at
   whichever of their native calls, the connected flag is true exactly when
   the wrapper holds a session id. *)
C26_ConnectedIffOpen ==
    plugin = "hit_acs" => (connected <=> _iid # None)

(* a connect that opened the session and failed at its SelectVAcc: the flag
   is up and the session is open *)
C26_Witness ==
    /\ plugin = "hit_acs"
    /\ last.op = "connect"
    /\ Len(last.calls) = 2
    /\ last.calls[2].function = "SelectVAcc"
    /\ last.calls[2].done # 0
    /\ last.exc # NoExc
    /\ connected
    /\ _iid # None


(* C27: in every state a recorded EFI selection belongs to the recorded VAcc:
   the SelectMEFI that stored it was called with the VAcc that is recorded
   now, so no SelectVAcc leaves the EFI record of another VAcc in place. *)
C27_EFIBelongsToVAcc ==
    _selected_efi # NoEFI => efi_vacc = _selected_vacc


(* C28: a disconnect of _HitACS issues GetMEFIValue, then GetSelectedVAcc,
   then FreeInterfaceInstance, each only if the calls before it succeeded;
   when one of the two reads fails the failure is raised, the session stays
   open, the connected flag stays true and the settings record is unchanged. *)
C28_DisconnectReadsBeforeFree ==
    [][ (last'.op = "disconnect" /\ plugin = "hit_acs")
          => LET calls == last'.calls
                 order == <<"GetMEFIValue", "GetSelectedVAcc",
                            "FreeInterfaceInstance">>
             IN /\ Len(calls) <= 3
                /\ \A k \in 1..Len(calls) :
                      /\ calls[k].function = order[k]
                      /\ \A j \in 1..(k - 1) : calls[j].done = 0
                /\ \A k \in 1..Len(calls) :
                      (k <= 2 /\ calls[k].done # 0)
                        => /\ last'.exc = check_return(calls[k].done)
                           /\ last'.exc # NoExc
                           /\ _iid # None
                           /\ _iid' = _iid
                           /\ connected
                           /\ connected'
                           /\ settings' = settings ]_vars

(* a disconnect whose GetSelectedVAcc failed after the channels were read:
   no free is issued and the settings hold what they held *)
C28_Witness ==
    /\ plugin = "hit_acs"
    /\ last.op = "disconnect"
    /\ Len(last.calls) = 2
    /\ last.calls[1].done = 0
    /\ last.calls[2].function = "GetSelectedVAcc"
    /\ last.calls[2].done # 0
    /\ last.exc # NoExc
    /\ _iid # None
    /\ connected
    /\ has_key(settings, "runtime_path")
    /\ ~has_key(settings, "variant")

=============================================================================
